---- MODULE Spec2Model ----
(***************************************************************************)
(* Streamline tracing (streamline.py) and interactive seed selection       *)
(* (catchment_inspector.py).                                               *)
(*                                                                         *)
(* Floating-point values are modelled as exact rationals <<num, den>> with *)
(* den > 0, extended with the non-finite values NaN = <<0,0>>,             *)
(* +inf = <<1,0>> and -inf = <<-1,0>>.                                     *)
(***************************************************************************)
EXTENDS Integers, Sequences, FiniteSets

VARIABLES
    U, V,                 \* velocity components, U[row][col] (row = y, col = x)
    start_point,          \* seed <<x, y>>
    t_max,                \* integration time
    max_points,           \* points per direction
    method,               \* solver method name
    normalize_velocity,   \* BOOLEAN
    pc,                   \* position inside streamline()
    fwd_points,           \* rows of the forward solve
    bwd_points,           \* rows of the backward solve
    streamline_points,    \* the returned array
    log,                  \* the calls made so far: arguments and returned array
    basins,               \* inspector: the rows of the shapefile
    basin,                \* inspector: index of the basin being inspected
    new_point,            \* inspector: the module-level global new_point
    points,               \* inspector: the saved seed of each basin
    ui,                   \* inspector: position of the main loop
    last_click            \* inspector: observation of the last in-axes click

vars == <<U, V, start_point, t_max, max_points, method, normalize_velocity,
          pc, fwd_points, bwd_points, streamline_points, log,
          basins, basin, new_point, points, ui, last_click>>

coreVars == <<U, V, start_point, t_max, max_points, method, normalize_velocity,
              pc, fwd_points, bwd_points, streamline_points, log>>

uiVars == <<basins, basin, new_point, points, ui, last_click>>

---------------------------------------------------------------------------
(* Bounds of the model.                                                    *)

MaxT == 2

MaxPoints == 3

MaxBasins == 2

MaxCalls == 3

---------------------------------------------------------------------------
(* Extended rational arithmetic (IEEE semantics for the non-finite cases). *)

Abs(n) == IF n < 0 THEN -n ELSE n

Sgn(n) == IF n < 0 THEN -1 ELSE IF n > 0 THEN 1 ELSE 0

RECURSIVE GCD(_, _)
GCD(a, b) == IF b = 0 THEN a ELSE GCD(b, a % b)

RNorm(n, d) ==
    IF d = 0 THEN <<Sgn(n), 0>>
    ELSE LET g == GCD(Abs(n), Abs(d))
             s == Sgn(d)
         IN  <<(s * n) \div g, (s * d) \div g>>

Q(n) == <<n, 1>>

NaN == <<0, 0>>

isfinite(a) == a[2] # 0

isnan(a) == a = NaN

RAdd(a, b) ==
    IF a[2] = 0 /\ b[2] = 0
    THEN IF a = b THEN a ELSE NaN
    ELSE RNorm(a[1] * b[2] + b[1] * a[2], a[2] * b[2])

RNeg(a) == <<-a[1], a[2]>>

RSub(a, b) == RAdd(a, RNeg(b))

RMul(a, b) == RNorm(a[1] * b[1], a[2] * b[2])

RInv(b) == IF b[1] < 0 THEN <<-b[2], -b[1]>> ELSE <<b[2], b[1]>>

RDiv(a, b) == RMul(a, RInv(b))

\* a <= b for finite a, b
RLeq(a, b) == a[1] * b[2] <= b[1] * a[2]

\* np.sqrt on the values that occur: NaN stays NaN, perfect squares of
\* rationals have their exact root.
IsSquare(n) == \E r \in 0..n : r * r = n

ISqrt(n) == CHOOSE r \in 0..n : r * r = n

sqrt(a) == IF a[2] = 0 THEN a ELSE <<ISqrt(a[1]), ISqrt(a[2])>>

Zero2 == <<Q(0), Q(0)>>

---------------------------------------------------------------------------
(* The grid: X, Y are meshgrids; X[1] is X[0, :], column 1 of Y is Y[:, 0] *)

X == << <<Q(0), Q(1), Q(2)>>, <<Q(0), Q(1), Q(2)>> >>

Y == << <<Q(0), Q(0), Q(0)>>, <<Q(1), Q(1), Q(1)>> >>

Xaxis == X[1]

Yaxis == [r \in 1..Len(Y) |-> Y[r][1]]

Rows == 1..Len(Yaxis)

Cols == 1..Len(Xaxis)

\* RegularGridInterpolator._find_indices: the interval holding c, clipped to
\* the first/last interval when c lies outside the axis.
find_indices(axis, c) ==
    LET below == {i \in 1..(Len(axis) - 1) : RLeq(axis[i], c)}
    IN  IF below = {} THEN 1
        ELSE CHOOSE i \in below : \A k \in below : k <= i

norm_distance(axis, c) ==
    LET i == find_indices(axis, c)
    IN  RDiv(RSub(c, axis[i]), RSub(axis[i + 1], axis[i]))

\* RegularGridInterpolator(..., method="linear", bounds_error=False,
\* fill_value=None): bilinear inside, the edge cell's bilinear form outside.
RegularGridInterpolator(values, y, x) ==
    LET i  == find_indices(Yaxis, y)
        j  == find_indices(Xaxis, x)
        wy == norm_distance(Yaxis, y)
        wx == norm_distance(Xaxis, x)
        oy == RSub(Q(1), wy)
        ox == RSub(Q(1), wx)
    IN  RAdd(RAdd(RMul(values[i][j], RMul(oy, ox)),
                  RMul(values[i][j + 1], RMul(oy, wx))),
             RAdd(RMul(values[i + 1][j], RMul(wy, ox)),
                  RMul(values[i + 1][j + 1], RMul(wy, wx))))

U_interp(y, x) == RegularGridInterpolator(U, y, x)

V_interp(y, x) == RegularGridInterpolator(V, y, x)

\* np.sqrt(U**2 + V**2)
speed_array ==
    [r \in Rows |-> [c \in Cols |->
        sqrt(RAdd(RMul(U[r][c], U[r][c]), RMul(V[r][c], V[r][c])))]]

normalizer(y, x) ==
    IF normalize_velocity
    THEN RegularGridInterpolator(speed_array, y, x)
    ELSE Q(1)

\* the vector uv of velocity_field before the finiteness test
sampled_uv(xy) ==
    LET x == xy[1]
        y == xy[2]
    IN  <<RDiv(U_interp(y, x), normalizer(y, x)),
          RDiv(V_interp(y, x), normalizer(y, x))>>

\* np.any in place of np.all
velocity_field_any(xy) ==
    LET uv == sampled_uv(xy)
    IN  IF isfinite(uv[1]) \/ isfinite(uv[2]) THEN uv ELSE Zero2

\* the finiteness test left out
velocity_field_nocheck(xy) == sampled_uv(xy)

velocity_field(xy) ==
    LET uv == sampled_uv(xy)
    IN  IF isfinite(uv[1]) /\ isfinite(uv[2]) THEN uv ELSE Zero2

---------------------------------------------------------------------------
(* solve_ivp.  The library integrator is abstracted as an explicit         *)
(* one-step scheme with linear dense output: it covers [0, t_end] in       *)
(* solver_steps[method] steps of its own choosing (not aligned with        *)
(* t_eval), advances y by h * f(y) in each, and evaluates the requested    *)
(* t_eval times on the dense output of the step that contains them.        *)

Methods == {"RK45", "LSODA"}

solver_steps == [m \in Methods |-> IF m = "RK45" THEN 2 ELSE 1]

Min(a, b) == IF a <= b THEN a ELSE b

\* np.linspace(0, stop, num, endpoint=False)
linspace_noendpoint(stop, num) ==
    [i \in 1..num |-> RDiv(RMul(Q(i - 1), stop), Q(num))]

\* np.linspace(0, stop, num)
linspace(stop, num) ==
    [i \in 1..num |-> IF num = 1 THEN Q(0)
                      ELSE RDiv(RMul(Q(i - 1), stop), Q(num - 1))]

Advance(p, h, f) == <<RAdd(p[1], RMul(h, f[1])), RAdd(p[2], RMul(h, f[2]))>>

\* the state of the solver after j accepted steps of length h
RECURSIVE step_y(_, _, _)
step_y(y0, h, j) ==
    IF j = 0 THEN y0
    ELSE LET y == step_y(y0, h, j - 1)
         IN  Advance(y, h, velocity_field(y))

\* index of the solver step whose dense output serves t_eval[i]
step_of(i, num, m) ==
    IF num = 1 THEN 0
    ELSE Min(solver_steps[m] - 1, ((i - 1) * solver_steps[m]) \div (num - 1))

\* dense output that keeps the slope of the first step
solve_ivp_stale(t_end, y0, m, t_eval) ==
    LET h == RDiv(t_end, Q(solver_steps[m]))
    IN  [i \in 1..Len(t_eval) |->
            LET j == step_of(i, Len(t_eval), m)
                y == step_y(y0, h, j)
            IN  Advance(y, RSub(t_eval[i], RMul(Q(j), h)), velocity_field(y0))]

\* a solver that starts from the end of the array returned last time
solve_ivp_warm(t_end, y0, m, t_eval) ==
    LET h  == RDiv(t_end, Q(solver_steps[m]))
        y1 == IF streamline_points = <<>> THEN y0
              ELSE streamline_points[Len(streamline_points)]
    IN  [i \in 1..Len(t_eval) |->
            LET j == step_of(i, Len(t_eval), m)
                y == step_y(y1, h, j)
            IN  Advance(y, RSub(t_eval[i], RMul(Q(j), h)), velocity_field(y))]

\* sol.y as rows: one row per entry of t_eval
solve_ivp(t_end, y0, m, t_eval) ==
    LET h == RDiv(t_end, Q(solver_steps[m]))
    IN  [i \in 1..Len(t_eval) |->
            LET j == step_of(i, Len(t_eval), m)
                y == step_y(y0, h, j)
            IN  Advance(y, RSub(t_eval[i], RMul(Q(j), h)), velocity_field(y))]

t_eval_fwd == linspace(Q(t_max), max_points)

t_eval_bwd == linspace(Q(-t_max), max_points)

Reverse(s) == [i \in 1..Len(s) |-> s[Len(s) + 1 - i]]

\* np.vstack((bwd_points[::-1], fwd_points))
vstack_merge_keepfirst(bwd, fwd) == Reverse(bwd) \o fwd

\* np.vstack((bwd_points, fwd_points[1:]))
vstack_merge_noreverse(bwd, fwd) == bwd \o Tail(fwd)

\* np.vstack((bwd_points[::-1], fwd_points[:-1]))
vstack_merge_droplast(bwd, fwd) ==
    Reverse(bwd) \o SubSeq(fwd, 1, Len(fwd) - 1)

\* np.vstack((bwd_points[::-1], fwd_points[1:]))
vstack_merge(bwd, fwd) == Reverse(bwd) \o Tail(fwd)

---------------------------------------------------------------------------
(* Inputs.                                                                 *)

ColField(p) == [r \in Rows |-> p]

RowField(a, b) == <<[c \in Cols |-> a], [c \in Cols |-> b]>>

FieldVals == {NaN, Q(0), Q(1)}

UProfiles == {<<a, b, c>> : a \in FieldVals, b \in FieldVals, c \in FieldVals}

VProfiles == {<<Q(0), Q(0), Q(0)>>, <<Q(1), Q(1), Q(1)>>,
              <<Q(0), Q(0), NaN>>, <<Q(-1), Q(2), Q(0)>>}

Fields ==
    {[U |-> ColField(p), V |-> ColField(q)] : p \in UProfiles, q \in VProfiles}
    \cup {[U |-> RowField(Q(3), Q(3)), V |-> RowField(Q(4), Q(0))],
          [U |-> RowField(Q(0), Q(0)), V |-> RowField(Q(2), Q(1))],
          [U |-> RowField(Q(1), Q(-1)), V |-> ColField(<<Q(0), Q(0), Q(0)>>)]}

\* np.sqrt is exact on the field (every lattice speed is rational)
HasRationalSpeed(f) ==
    \A r \in Rows, c \in Cols :
        LET s == RAdd(RMul(f.U[r][c], f.U[r][c]), RMul(f.V[r][c], f.V[r][c]))
        IN  s[2] = 0 \/ (IsSquare(s[1]) /\ IsSquare(s[2]))

Seeds == {<<RNorm(1, 2), RNorm(1, 2)>>, <<RNorm(3, 2), RNorm(1, 2)>>,
          <<Q(1), RNorm(1, 2)>>,
          <<Q(-1), RNorm(1, 2)>>, <<Q(3), RNorm(1, 2)>>,
          <<Q(2), Q(2)>>, <<RNorm(1, 2), RNorm(5, 2)>>}

Args == {a \in [U : {f.U : f \in Fields}, V : {f.V : f \in Fields},
                start_point : Seeds, t_max : 0..MaxT,
                max_points : 1..MaxPoints, method : Methods,
                normalize_velocity : BOOLEAN] :
            /\ [U |-> a.U, V |-> a.V] \in Fields
            /\ a.normalize_velocity => HasRationalSpeed([U |-> a.U, V |-> a.V])}

---------------------------------------------------------------------------
(* streamline(): one action per statement group.                           *)

ArgsNow == [U |-> U, V |-> V, start_point |-> start_point, t_max |-> t_max,
            max_points |-> max_points, method |-> method,
            normalize_velocity |-> normalize_velocity]

\* entry with the arguments a; the array returned by the previous call stays
\* with the caller
Enter(a) ==
    /\ U = a.U
    /\ V = a.V
    /\ start_point = a.start_point
    /\ t_max = a.t_max
    /\ max_points = a.max_points
    /\ method = a.method
    /\ normalize_velocity = a.normalize_velocity
    /\ pc = "forward"
    /\ fwd_points = <<>>
    /\ bwd_points = <<>>

Forward ==
    /\ pc = "forward"
    /\ fwd_points' = solve_ivp(Q(t_max), start_point, method, t_eval_fwd)
    /\ pc' = "backward"
    /\ UNCHANGED <<U, V, start_point, t_max, max_points, method,
                   normalize_velocity, bwd_points, streamline_points, log,
                   uiVars>>

Backward ==
    /\ pc = "backward"
    /\ bwd_points' = solve_ivp(Q(-t_max), start_point, method, t_eval_bwd)
    /\ pc' = "combine"
    /\ UNCHANGED <<U, V, start_point, t_max, max_points, method,
                   normalize_velocity, fwd_points, streamline_points, log,
                   uiVars>>

Combine ==
    /\ pc = "combine"
    /\ streamline_points' = vstack_merge(bwd_points, fwd_points)
    /\ log' = Append(log, [args |-> ArgsNow, out |-> streamline_points'])
    /\ pc' = "returned"
    /\ UNCHANGED <<U, V, start_point, t_max, max_points, method,
                   normalize_velocity, fwd_points, bwd_points, uiVars>>

UiIdle ==
    /\ basins = <<>>
    /\ basin = 0
    /\ new_point = <<NaN, NaN>>
    /\ points = <<>>
    /\ ui = "off"
    /\ last_click = <<NaN, NaN>>

Init ==
    /\ \E a \in Args : Enter(a)
    /\ streamline_points = <<>>
    /\ log = <<>>
    /\ UiIdle

Next == Forward \/ Backward \/ Combine

Spec == Init /\ [][Next]_vars

---------------------------------------------------------------------------
(* Properties of streamline().                                             *)

Returned == pc = "returned"

RowsOf(run) == {run[i] : i \in 1..Len(run)}

Moved(run) == \E i \in 1..Len(run) : run[i] # start_point

C2_SeedRow == Returned => streamline_points[max_points] = start_point

C2_Witness ==
    /\ Returned
    /\ max_points >= 2
    /\ streamline_points[max_points] = start_point
    /\ \A i \in 1..Len(streamline_points) :
           i # max_points => streamline_points[i] # start_point

\* C3: the returned array is the backward run reversed followed by the
\* forward run without its first row, the seed being the junction.
C3_Merge ==
    Returned =>
        /\ \A i \in 1..max_points :
               streamline_points[i] = bwd_points[max_points + 1 - i]
        /\ \A i \in (max_points + 1)..(2 * max_points - 1) :
               streamline_points[i] = fwd_points[i - max_points + 1]
        /\ bwd_points[1] = start_point
        /\ fwd_points[1] = start_point

C3_Witness ==
    /\ Returned
    /\ max_points = MaxPoints
    /\ \A i, j \in 1..Len(streamline_points) :
           i # j => streamline_points[i] # streamline_points[j]

Uniform(u0, v0) ==
    \A r \in Rows, c \in Cols : U[r][c] = u0 /\ V[r][c] = v0

FiniteVals == {v \in FieldVals : isfinite(v)}

\* C4: in a uniform field without normalization, row i (0-based) is
\* seed + (i - (n-1)) * t_max/(n-1) * (u0, v0); the U=1, V=0, t_max=1,
\* max_points=3, seed=(2,2) example gives (1,2),(1.5,2),(2,2),(2.5,2),(3,2).
C4_Uniform ==
    (Returned /\ ~normalize_velocity /\ max_points >= 2) =>
        /\ \A u0 \in FiniteVals, v0 \in FiniteVals :
               Uniform(u0, v0) =>
                   \A i \in 1..(2 * max_points - 1) :
                       streamline_points[i] =
                           Advance(start_point,
                                   RDiv(Q((i - max_points) * t_max),
                                        Q(max_points - 1)),
                                   <<u0, v0>>)
        /\ (/\ Uniform(Q(1), Q(0))
            /\ t_max = 1
            /\ max_points = 3
            /\ start_point = <<Q(2), Q(2)>>)
           => streamline_points =
                  << <<Q(1), Q(2)>>, <<RNorm(3, 2), Q(2)>>, <<Q(2), Q(2)>>,
                     <<RNorm(5, 2), Q(2)>>, <<Q(3), Q(2)>> >>

C4_Witness ==
    /\ Returned
    /\ ~normalize_velocity
    /\ Uniform(Q(1), Q(0))
    /\ t_max = 1
    /\ max_points = 3
    /\ start_point = <<Q(2), Q(2)>>
    /\ streamline_points[1] = <<Q(1), Q(2)>>
    /\ streamline_points[5] = <<Q(3), Q(2)>>

OutsideGrid(p) ==
    \/ ~RLeq(Xaxis[1], p[1])
    \/ ~RLeq(p[1], Xaxis[Len(Xaxis)])
    \/ ~RLeq(Yaxis[1], p[2])
    \/ ~RLeq(p[2], Yaxis[Len(Yaxis)])

\* C5: a seed strictly outside the grid rectangle gives an array whose
\* rows all equal the seed.
C5_OutsideCollapses ==
    (Returned /\ OutsideGrid(start_point)) =>
        \A i \in 1..Len(streamline_points) :
            streamline_points[i] = start_point

Visited == {start_point} \cup RowsOf(fwd_points) \cup RowsOf(bwd_points)

\* C6: at every position the solver is given, velocity_field is finite;
\* it is (0, 0) when the sampled vector has a non-finite component and the
\* sampled vector otherwise.
C6_VelocityFinite ==
    \A p \in Visited :
        LET uv == sampled_uv(p)
            f  == velocity_field(p)
        IN  /\ isfinite(f[1]) /\ isfinite(f[2])
            /\ (isfinite(uv[1]) /\ isfinite(uv[2])) => f = uv
            /\ ~(isfinite(uv[1]) /\ isfinite(uv[2])) => f = Zero2

\* one component NaN and the other finite and nonzero, inside a run that
\* also visits a position with a usable velocity
C6_Witness ==
    /\ Returned
    /\ \E p \in Visited :
           /\ isfinite(sampled_uv(p)[1]) /\ sampled_uv(p)[1] # Q(0)
           /\ isnan(sampled_uv(p)[2])
    /\ \E p \in Visited : velocity_field(p) # Zero2

\* an infinite component: a nonzero velocity divided by a zero speed
C6_WitnessInf ==
    /\ normalize_velocity
    /\ sampled_uv(start_point)[1] = <<1, 0>>
    /\ velocity_field(start_point) = Zero2

Runs == {<<Q(t_max), fwd_points>>, <<Q(-t_max), bwd_points>>}

ZeroField == Uniform(Q(0), Q(0))

\* C8: in the all-zero field every returned row equals the seed, with and
\* without normalization.
C8_ZeroField ==
    (Returned /\ ZeroField) =>
        \A i \in 1..Len(streamline_points) :
            streamline_points[i] = start_point

C8_Witness ==
    /\ Returned
    /\ ZeroField
    /\ normalize_velocity
    /\ t_max = MaxT
    /\ max_points = MaxPoints
    /\ OutsideGrid(start_point)
    /\ streamline_points = [i \in 1..(2 * MaxPoints - 1) |-> start_point]

---------------------------------------------------------------------------
(* catchment_inspector.py: inspect_basin and the main loop.                *)
(* A basin row carries what inspect_basin derives from it.  Matplotlib's   *)
(* None for xdata/ydata of a click outside the axes is written NaN.        *)

NaNPoint == <<NaN, NaN>>

MaskedField == [U |-> ColField(<<Q(1), Q(1), NaN>>),
                V |-> ColField(<<Q(0), Q(0), NaN>>)]

OpenField == [U |-> ColField(<<Q(1), Q(1), Q(1)>>),
              V |-> ColField(<<Q(0), Q(0), Q(0)>>)]

\* any_mask: np.any(mask); drawable: the mask's bounding box spans at least
\* two interior rows and columns, so the sliced arrays give a grid
BasinRows ==
    {[any_mask |-> TRUE, drawable |-> TRUE,
      centroid |-> <<RNorm(1, 2), RNorm(1, 2)>>, field |-> MaskedField],
     [any_mask |-> TRUE, drawable |-> TRUE,
      centroid |-> <<Q(1), RNorm(1, 2)>>, field |-> OpenField],
     [any_mask |-> TRUE, drawable |-> FALSE,
      centroid |-> <<Q(1), RNorm(1, 2)>>, field |-> OpenField],
     [any_mask |-> FALSE, drawable |-> FALSE,
      centroid |-> <<RNorm(3, 2), RNorm(1, 2)>>, field |-> MaskedField]}

SavedPoints == {NaNPoint, <<RNorm(3, 2), RNorm(1, 2)>>}

ClickEvents ==
    {[inaxes |-> TRUE, xdata |-> RNorm(1, 2), ydata |-> RNorm(1, 2)],
     [inaxes |-> TRUE, xdata |-> Q(1), ydata |-> RNorm(1, 2)],
     [inaxes |-> FALSE, xdata |-> NaN, ydata |-> NaN]}

Keys == {"enter", "escape", "a"}

\* t_max=1000000 of the first streamline and the default t_max=100000 and
\* max_points=10000 of the click handler, scaled down to the model's bounds
InspectTMax == MaxT

DefaultTMax == MaxT - 1

DefaultMaxPoints == MaxPoints

\* starting_point, or the centroid when none is saved
old_point(starting_point, centroid) ==
    IF isnan(starting_point[1]) THEN centroid ELSE starting_point

\* the handler without the event.inaxes test
on_click_noguard(np, event) == <<event.xdata, event.ydata>>

\* new_point after on_click(event)
on_click(np, event) ==
    IF event.inaxes THEN <<event.xdata, event.ydata>> ELSE np

\* the call streamline(X, Y, u_stream, v_stream, sp, t_max=tm)
Draw(sp, tm) ==
    /\ start_point' = sp
    /\ t_max' = tm
    /\ max_points' = DefaultMaxPoints
    /\ fwd_points' = solve_ivp(Q(tm), sp, method, linspace(Q(tm), DefaultMaxPoints))
    /\ bwd_points' = solve_ivp(Q(-tm), sp, method, linspace(Q(-tm), DefaultMaxPoints))
    /\ streamline_points' = vstack_merge(bwd_points', fwd_points')
    /\ UNCHANGED <<U, V, method, normalize_velocity, pc, log>>

\* inspect_basin returns (nan, nan) at once; the main loop stores and saves it
InspectNoSpeed ==
    /\ ui = "loop"
    /\ basin <= Len(basins)
    /\ ~basins[basin].any_mask
    /\ new_point' = points[basin]
    /\ points' = [points EXCEPT ![basin] = NaNPoint]
    /\ basin' = basin + 1
    /\ UNCHANGED <<coreVars, basins, ui, last_click>>

\* the sliced arrays are empty or a single row/column: the call raises
InspectRaise ==
    /\ ui = "loop"
    /\ basin <= Len(basins)
    /\ basins[basin].any_mask
    /\ ~basins[basin].drawable
    /\ new_point' = points[basin]
    /\ ui' = "error"
    /\ UNCHANGED <<coreVars, basins, basin, points, last_click>>

\* inspect_basin up to the masked velocity arrays and the old starting point
InspectOpen ==
    /\ ui = "loop"
    /\ basin <= Len(basins)
    /\ basins[basin].any_mask
    /\ basins[basin].drawable
    /\ new_point' = old_point(points[basin], basins[basin].centroid)
    /\ U' = basins[basin].field.U
    /\ V' = basins[basin].field.V
    /\ normalize_velocity' = FALSE
    /\ method' = "LSODA"
    /\ last_click' = NaNPoint
    /\ ui' = "plot"
    /\ UNCHANGED <<start_point, t_max, max_points, pc, fwd_points, bwd_points,
                   streamline_points, log, basins, basin, points>>

\* the streamline of the old starting point, then plt.show()
PlotOld ==
    /\ ui = "plot"
    /\ Draw(new_point, InspectTMax)
    /\ ui' = "show"
    /\ UNCHANGED <<basins, basin, new_point, points, last_click>>

OnClick ==
    /\ ui = "show"
    /\ \E event \in ClickEvents :
        /\ new_point' = on_click(new_point, event)
        /\ IF event.inaxes
           THEN /\ Draw(new_point', DefaultTMax)
                /\ last_click' = <<event.xdata, event.ydata>>
           ELSE UNCHANGED <<coreVars, last_click>>
    /\ UNCHANGED <<basins, basin, points, ui>>

\* on_key; Enter closes the figure, inspect_basin returns new_point and the
\* main loop stores and saves it; Escape exits the program
OnKey ==
    /\ ui = "show"
    /\ \E key \in Keys :
        CASE key = "enter" ->
                /\ points' = [points EXCEPT ![basin] = new_point]
                /\ basin' = basin + 1
                /\ ui' = "loop"
          [] key = "escape" ->
                /\ ui' = "exit"
                /\ UNCHANGED <<points, basin>>
          [] OTHER -> UNCHANGED <<points, basin, ui>>
    /\ UNCHANGED <<coreVars, basins, new_point, last_click>>

InitUI ==
    /\ U = OpenField.U
    /\ V = OpenField.V
    /\ start_point = <<Q(0), Q(0)>>
    /\ t_max = 0
    /\ max_points = 1
    /\ method = "LSODA"
    /\ normalize_velocity = FALSE
    /\ pc = "returned"
    /\ fwd_points = <<>>
    /\ bwd_points = <<>>
    /\ streamline_points = <<>>
    /\ log = <<>>
    /\ \E n \in 1..MaxBasins :
        /\ basins \in [1..n -> BasinRows]
        /\ points \in [1..n -> SavedPoints]
    /\ basin = 1
    /\ new_point = NaNPoint
    /\ ui = "loop"
    /\ last_click = NaNPoint

NextUI == InspectNoSpeed \/ InspectRaise \/ InspectOpen \/ PlotOld
          \/ OnClick \/ OnKey

SpecUI == InitUI /\ [][NextUI]_vars

\* what inspect_basin is to return for the basin on show
Chosen ==
    IF last_click # NaNPoint THEN last_click
    ELSE old_point(points[basin], basins[basin].centroid)

\* C10: while a basin is shown new_point is the last click inside the axes,
\* or else the saved seed, or else the centroid; when the loop moves on, the
\* saved seed of the basin becomes that point, or (NaN, NaN) for a basin
\* with no cell over the threshold, and no other saved seed changes.
C10_Reselect ==
    [][/\ (ui' = "show" /\ basin' = basin) => new_point' = Chosen'
       /\ basin' = basin + 1 =>
            /\ points'[basin] = IF basins[basin].any_mask
                                THEN Chosen ELSE NaNPoint
            /\ \A k \in 1..Len(basins) : k # basin => points'[k] = points[k]]_vars

\* a saved seed was replaced by a click, after a click outside the axes
\* could have happened, and the next basin lost its saved seed
C10_Witness ==
    /\ Len(basins) = 2
    /\ basin = 3
    /\ basins[1].any_mask
    /\ points[1] = last_click
    /\ last_click = <<Q(1), RNorm(1, 2)>>
    /\ ~basins[2].any_mask
    /\ points[2] = NaNPoint

---------------------------------------------------------------------------
(* A caller that calls streamline() again and again.                       *)

ArgsFew ==
    {[U |-> f.U, V |-> f.V, start_point |-> sp, t_max |-> MaxT,
      max_points |-> MaxPoints, method |-> m, normalize_velocity |-> FALSE] :
        f \in {MaskedField, OpenField},
        sp \in {<<RNorm(1, 2), RNorm(1, 2)>>, <<Q(3), RNorm(1, 2)>>},
        m \in Methods}

Call ==
    /\ pc = "returned"
    /\ Len(log) < MaxCalls
    /\ \E a \in ArgsFew :
        /\ U' = a.U
        /\ V' = a.V
        /\ start_point' = a.start_point
        /\ t_max' = a.t_max
        /\ max_points' = a.max_points
        /\ method' = a.method
        /\ normalize_velocity' = a.normalize_velocity
    /\ pc' = "forward"
    /\ fwd_points' = <<>>
    /\ bwd_points' = <<>>
    /\ UNCHANGED <<streamline_points, log, uiVars>>

InitCalls ==
    /\ \E a \in ArgsFew : Enter(a)
    /\ streamline_points = <<>>
    /\ log = <<>>
    /\ UiIdle

NextCalls == Call \/ Forward \/ Backward \/ Combine

SpecCalls == InitCalls /\ [][NextCalls]_vars

====
